---- MODULE Spec2Model ----
(***************************************************************************)
(* A model of the agentic RAG pipeline: the Critic (critic_agent.py), the  *)
(* revision loop (revision_agent.py), the Planner (planner_agent.py), the  *)
(* session Memory (memory.py), the Retriever (retrieval.py), the Answer    *)
(* Generator (answer_agent.py) and the Chunker (chunking.py).  Texts are   *)
(* strings; a character is a string of length 1.  Each component has its   *)
(* own specification: the variables of the other components stay at their  *)
(* initial values.                                                         *)
(***************************************************************************)
EXTENDS Integers, Sequences, FiniteSets, TLC

VARIABLES
    \* the arguments of evaluate / run_revision_loop
    answer, context, question,
    \* Critic: position, the two evaluations of the same arguments
    critic_pc, ev_a, ev_b,
    \* run_revision_loop: position, arguments, locals, result, call counters
    pc, eval_fn, max_rounds, history, current, ev, rounds_done, result,
    eval_calls, revise_calls,
    \* Planner: position, the query, check_complexity's and plan_query's results
    plan_pc, query, complexity, plan,
    \* Memory: the log, the clock of datetime.now(), and the last operation
    \* called with its argument and what it returned
    log, clock, mem_op, mem_arg, mem_ret,
    \* find_top_chunks: position, arguments (the index as the distance of each
    \* of its vectors from the query), what index.search was asked for and
    \* returned, the position of the for loop, the list being built
    ret_pc, top_k, chunk_list, index, k_asked, dists, idxs, slot, found,
    \* build_answer (its arguments are question and context): position, the
    \* local prompt, the prompts passed to llm so far, the returned dict
    ans_pc, prompt, sent, built,
    \* chunk_text: position, arguments, locals (result is chunks), and the
    \* number of iterations of the while loop so far
    ck_pc, text, chunk_size, overlap, pos, idx, chunks, iters

argVars     == <<answer, context, question>>
criticVars  == <<critic_pc, ev_a, ev_b>>
loopVars    == <<pc, eval_fn, max_rounds, history, current, ev, rounds_done,
                 result, eval_calls, revise_calls>>
plannerVars == <<plan_pc, query, complexity, plan>>
memoryVars  == <<log, clock, mem_op, mem_arg, mem_ret>>
retrievalVars == <<ret_pc, top_k, chunk_list, index, k_asked, dists, idxs,
                   slot, found>>
answerVars  == <<ans_pc, prompt, sent, built>>
chunkVars   == <<ck_pc, text, chunk_size, overlap, pos, idx, chunks, iters>>
restVars    == <<retrievalVars, answerVars, chunkVars>>
vars        == <<argVars, criticVars, loopVars, plannerVars, memoryVars,
                 restVars>>

\* The value of a variable that holds nothing yet (Python's unbound / None).
None == "None"

(***************************************************************************)
(* Python's str operations, character by character.                        *)
(***************************************************************************)

\* s[i] for a 1-based i
CharAt(s, i) == SubSeq(s, i, i)

\* str.isspace for the characters the model uses
Whitespace == {" ", "\t", "\n"}

UpperToLower ==
    [c \in {"A","B","C","D","E","F","G","H","I","J","K","L","M",
            "N","O","P","Q","R","S","T","U","V","W","X","Y","Z"} |->
        CASE c = "A" -> "a" [] c = "B" -> "b" [] c = "C" -> "c" [] c = "D" -> "d"
          [] c = "E" -> "e" [] c = "F" -> "f" [] c = "G" -> "g" [] c = "H" -> "h"
          [] c = "I" -> "i" [] c = "J" -> "j" [] c = "K" -> "k" [] c = "L" -> "l"
          [] c = "M" -> "m" [] c = "N" -> "n" [] c = "O" -> "o" [] c = "P" -> "p"
          [] c = "Q" -> "q" [] c = "R" -> "r" [] c = "S" -> "s" [] c = "T" -> "t"
          [] c = "U" -> "u" [] c = "V" -> "v" [] c = "W" -> "w" [] c = "X" -> "x"
          [] c = "Y" -> "y" [] c = "Z" -> "z"]

LowerChar(c) == IF c \in DOMAIN UpperToLower THEN UpperToLower[c] ELSE c

UpperChar(c) ==
    IF \E u \in DOMAIN UpperToLower : UpperToLower[u] = c
    THEN CHOOSE u \in DOMAIN UpperToLower : UpperToLower[u] = c
    ELSE c

\* str.lower()
RECURSIVE Lower(_)
Lower(s) == IF s = "" THEN "" ELSE LowerChar(Head(s)) \o Lower(Tail(s))

\* str.lstrip() / str.rstrip() / str.strip()
RECURSIVE LStrip(_)
LStrip(s) == IF s # "" /\ Head(s) \in Whitespace THEN LStrip(Tail(s)) ELSE s

RECURSIVE RStrip(_)
RStrip(s) ==
    IF s # "" /\ CharAt(s, Len(s)) \in Whitespace
    THEN RStrip(SubSeq(s, 1, Len(s) - 1))
    ELSE s

Strip(s) == RStrip(LStrip(s))

\* str.capitalize(): first character upper-cased, the rest lower-cased
Capitalize(s) ==
    IF s = "" THEN "" ELSE UpperChar(Head(s)) \o Lower(Tail(s))

\* sub in s
Contains(sub, s) ==
    \E i \in 1..(Len(s) - Len(sub) + 1) : SubSeq(s, i, i + Len(sub) - 1) = sub

\* the first whitespace-free run of s, and what follows it (s has no leading
\* whitespace)
RECURSIVE TokenLen(_)
TokenLen(s) ==
    IF s = "" \/ Head(s) \in Whitespace THEN 0 ELSE 1 + TokenLen(Tail(s))

\* set(s.split()): the set of the whitespace-separated tokens of s
RECURSIVE SplitSet(_)
SplitSet(s) ==
    LET t == LStrip(s)
        n == TokenLen(t)
    IN  IF t = "" THEN {}
        ELSE {SubSeq(t, 1, n)} \cup SplitSet(SubSeq(t, n + 1, Len(t)))

\* sep.join(parts)
RECURSIVE Join(_, _)
Join(sep, parts) ==
    IF parts = <<>> THEN ""
    ELSE IF Len(parts) = 1 THEN parts[1]
    ELSE parts[1] \o sep \o Join(sep, Tail(parts))

\* str(n) for n >= 0
Digit(d) == CharAt("0123456789", d + 1)

RECURSIVE IntToStr(_)
IntToStr(n) == IF n < 10 THEN Digit(n) ELSE IntToStr(n \div 10) \o Digit(n % 10)

Max(a, b) == IF a >= b THEN a ELSE b
Min(a, b) == IF a <= b THEN a ELSE b

(***************************************************************************)
(* critic_agent.py                                                         *)
(***************************************************************************)

\* f"{x:.0%}" for x = num/den: 100*num/den rounded to an integer, ties to even
Percent(num, den) ==
    LET q == (100 * num) \div den
        r == (100 * num) % den
        n == IF 2 * r > den \/ (2 * r = den /\ q % 2 = 1) THEN q + 1 ELSE q
    IN  IntToStr(n) \o "%"

no_info ==
    {"does not contain", "not found", "no information",
     "cannot answer", "not mentioned", "not available"}

stop ==
    {"the", "a", "an", "is", "are", "was", "were", "in", "on", "at",
     "to", "for", "of", "and", "or", "it", "this", "that", "with", "by"}

\* the thresholds and deductions of the four checks, the score's range and
\* the score below which evaluate asks for a revision
VeryShortLen == 20
ShortLen == 50
VeryShortPenalty == 3
ShortPenalty == 1
NoInfoPenalty == 2
LowGroundingPenalty == 3
ModerateGroundingPenalty == 1
LowRelevancePenalty == 2
StartScore == 10
MinScore == 1
MaxScore == 10
RevisionThreshold == 7

\* the grounding overlap, had the context not been lower-cased
GroundingOverlap_case_sensitive(a, c) ==
    LET ans_words == SplitSet(Lower(a)) \ stop
        ctx_words == SplitSet(c) \ stop
    IN  IF Cardinality(ans_words) > 0
        THEN <<Cardinality(ans_words \cap ctx_words), Cardinality(ans_words)>>
        ELSE <<0, 1>>

\* overlap = len(ans_words & ctx_words) / len(ans_words), else 0, as the
\* pair <<numerator, denominator>> (0/1 when the answer has no words left)
GroundingOverlap(a, c) ==
    LET ans_words == SplitSet(Lower(a)) \ stop
        ctx_words == SplitSet(Lower(c)) \ stop
    IN  IF Cardinality(ans_words) > 0
        THEN <<Cardinality(ans_words \cap ctx_words), Cardinality(ans_words)>>
        ELSE <<0, 1>>

\* the deduction of the grounding check: overlap < 0.3, overlap < 0.5, else
GroundingPenalty(ov) ==
    IF 10 * ov[1] < 3 * ov[2] THEN LowGroundingPenalty
    ELSE IF 2 * ov[1] < ov[2] THEN ModerateGroundingPenalty
    ELSE 0

\* the clamp without its floor: min(10, score)
Clamp_no_floor(score) == Min(MaxScore, score)

\* the final clamp: max(1, min(10, score))
Clamp(score) == Max(MinScore, Min(MaxScore, score))

\* the deduction of the length check
LengthPenalty(a) ==
    IF Len(a) < VeryShortLen THEN VeryShortPenalty
    ELSE IF Len(a) < ShortLen THEN ShortPenalty
    ELSE 0

\* any(p in answer.lower() for p in no_info)
SaysNoInfo(a) == \E p \in no_info : Contains(p, Lower(a))

\* q_overlap = len(q_words & set(answer.lower().split())) / max(len(q_words), 1)
\* as the pair <<numerator, denominator>>
RelevanceOverlap(a, q) ==
    LET q_words == SplitSet(Lower(q)) \ stop
    IN  <<Cardinality(q_words \cap SplitSet(Lower(a))),
          Max(Cardinality(q_words), 1)>>

\* q_overlap < 0.3
LowRelevance(ov) == 10 * ov[1] < 3 * ov[2]

\* the score before the final clamp: 10 less every deduction
RawScore(a, c, q) ==
    StartScore
    - LengthPenalty(a)
    - (IF SaysNoInfo(a) THEN NoInfoPenalty ELSE 0)
    - GroundingPenalty(GroundingOverlap(a, c))
    - (IF LowRelevance(RelevanceOverlap(a, q)) THEN LowRelevancePenalty ELSE 0)

heuristic_checks(a, c, q) ==
    LET ov    == GroundingOverlap(a, c)
        g_pen == GroundingPenalty(ov)
        g_pct == Percent(ov[1], ov[2])
        q_ov  == RelevanceOverlap(a, q)
        q_pct == Percent(q_ov[1], q_ov[2])
    IN  [notes |->
            [length    |-> IF Len(a) < VeryShortLen
                           THEN "Very short answer (< 20 chars), probably incomplete"
                           ELSE IF Len(a) < ShortLen
                           THEN "Kinda short, might be missing detail"
                           ELSE "Length seems fine",
             no_info   |-> IF SaysNoInfo(a)
                           THEN "Answer says info is missing - might need different retrieval"
                           ELSE "Doesn't flag missing info",
             grounding |-> IF g_pen = LowGroundingPenalty
                           THEN "Low grounding (" \o g_pct \o ") - possible hallucination"
                           ELSE IF g_pen = ModerateGroundingPenalty
                           THEN "Moderate grounding (" \o g_pct \o ")"
                           ELSE "Good grounding (" \o g_pct \o ")",
             relevance |-> IF LowRelevance(q_ov)
                           THEN "Low relevance (" \o q_pct
                                \o ") - might not be answering the right question"
                           ELSE "Relevance okay (" \o q_pct \o ")"],
         score |-> Clamp(RawScore(a, c, q))]

\* llm_eval: the generation service answers the prompt with the text gen
llm_eval(a, c, q, gen) == [llm_feedback |-> Strip(gen)]

\* evaluate, had it let the generation service's text lower the score
evaluate_llm_scored(a, c, q, gen) ==
    LET h == heuristic_checks(a, c, q)
        l == llm_eval(a, c, q, gen)
        s == IF Contains("wrong", Lower(l.llm_feedback))
             THEN Clamp(h.score - 1) ELSE h.score
    IN  [score          |-> s,
         feedback       |-> "  - llm says: " \o l.llm_feedback,
         notes          |-> h.notes,
         llm_feedback   |-> l.llm_feedback,
         needs_revision |-> s < RevisionThreshold]

evaluate(a, c, q, gen) ==
    LET h == heuristic_checks(a, c, q)
        l == llm_eval(a, c, q, gen)
        feedback_lines ==
            <<"  - length: " \o h.notes.length,
              "  - no_info: " \o h.notes.no_info,
              "  - grounding: " \o h.notes.grounding,
              "  - relevance: " \o h.notes.relevance,
              "  - llm says: " \o l.llm_feedback>>
    IN  [score          |-> h.score,
         feedback       |-> Join("\n", feedback_lines),
         notes          |-> h.notes,
         llm_feedback   |-> l.llm_feedback,
         needs_revision |-> h.score < RevisionThreshold]

(***************************************************************************)
(* The inputs of the Critic.                                               *)
(***************************************************************************)

\* every sequence of at most n elements of S
SeqsUpTo(S, n) == UNION {[1..k -> S] : k \in 0..n}

\* the texts of at most n vocabulary items, joined by single spaces
TextsOf(vocab, n) == {Join(" ", w) : w \in SeqsUpTo(vocab, n)}

MaxAnswerWords == 3
AnswerVocab == {"The", "not found", "Model", "characterization"}
AnswerTexts == TextsOf(AnswerVocab, MaxAnswerWords)
ContextTexts == {"", "model", "the model characterization", "Not found"}
QuestionTexts == {"", "what is the model", "Characterization"}
\* what the generation service may answer to llm_eval's prompt
LlmTexts == {"Looks complete.", " The answer is wrong. "}

ArgsIdle    == answer = "" /\ context = "" /\ question = ""
CriticIdle  == critic_pc = "idle" /\ ev_a = None /\ ev_b = None
LoopIdle    ==
    /\ pc = "idle" /\ eval_fn = None /\ max_rounds = 0 /\ history = <<>>
    /\ current = "" /\ ev = None /\ rounds_done = 0 /\ result = None
    /\ eval_calls = 0 /\ revise_calls = 0
PlannerIdle == plan_pc = "idle" /\ query = "" /\ complexity = None /\ plan = None
MemoryIdle  ==
    /\ log = <<>> /\ clock = 0
    /\ mem_op = "__init__" /\ mem_arg = None /\ mem_ret = None

RetrievalIdle ==
    /\ ret_pc = "idle" /\ top_k = 0 /\ chunk_list = <<>> /\ index = <<>>
    /\ k_asked = None /\ dists = <<>> /\ idxs = <<>> /\ slot = 0
    /\ found = <<>>
AnswerIdle  == ans_pc = "idle" /\ prompt = None /\ sent = <<>> /\ built = None
ChunkIdle   ==
    /\ ck_pc = "idle" /\ text = "" /\ chunk_size = 0 /\ overlap = 0
    /\ pos = 0 /\ idx = 0 /\ chunks = <<>> /\ iters = 0
RestIdle    == RetrievalIdle /\ AnswerIdle /\ ChunkIdle

(***************************************************************************)
(* The Critic: evaluate called twice on the same answer, context and       *)
(* question; the generation service answers each call as it likes.         *)
(***************************************************************************)

InitCritic ==
    /\ answer \in AnswerTexts
    /\ context \in ContextTexts \cup {answer}
    /\ question \in QuestionTexts
    /\ critic_pc = "first" /\ ev_a = None /\ ev_b = None
    /\ LoopIdle /\ PlannerIdle /\ MemoryIdle /\ RestIdle

EvaluateFirst ==
    /\ critic_pc = "first"
    /\ \E gen \in LlmTexts : ev_a' = evaluate(answer, context, question, gen)
    /\ critic_pc' = "second"
    /\ UNCHANGED <<ev_b, argVars, loopVars, plannerVars, memoryVars, restVars>>

EvaluateSecond ==
    /\ critic_pc = "second"
    /\ \E gen \in LlmTexts : ev_b' = evaluate(answer, context, question, gen)
    /\ critic_pc' = "done"
    /\ UNCHANGED <<ev_a, argVars, loopVars, plannerVars, memoryVars, restVars>>

NextCritic == EvaluateFirst \/ EvaluateSecond

SpecCritic == InitCritic /\ [][NextCritic]_vars

\* C4: every score evaluate returns is an integer from 1 to 10; an answer with
\* no non-stop token is given 0% grounding; a sum of deductions that takes the
\* score below 1 is clamped to 1.
C4_ScoreInRange ==
    critic_pc # "first" =>
        /\ ev_a.score \in 1..10
        /\ heuristic_checks(answer, context, question).score = ev_a.score
        /\ (SplitSet(Lower(answer)) \ stop = {} =>
                ev_a.notes.grounding = "Low grounding (0%) - possible hallucination")
        /\ (RawScore(answer, context, question) < 1 => ev_a.score = 1)

\* C4's case: every deduction applies (3 + 2 + 3 + 2) and 0 is clamped to 1
C4_Witness ==
    /\ critic_pc # "first"
    /\ RawScore(answer, context, question) = 0
    /\ ev_a.score = 1

\* C5: two evaluations of the same answer, context and question agree on the
\* score and on needs_revision, whatever the generation service answered.
C5_ScoreIgnoresLlm ==
    critic_pc = "done" =>
        /\ ev_a.score = ev_b.score
        /\ ev_a.needs_revision = ev_b.needs_revision

\* C5's case: the generation service answered the two calls differently
C5_Witness ==
    /\ critic_pc = "done"
    /\ ev_a.llm_feedback # ev_b.llm_feedback
    /\ ev_a.feedback # ev_b.feedback
    /\ ev_a.score = ev_b.score

\* C6 as stated: an answer equal to its context has 100% grounding and no
\* grounding deduction, for every text.
C6_IdenticalIsGrounded ==
    (critic_pc # "first" /\ answer = context) =>
        /\ ev_a.notes.grounding = "Good grounding (100%)"
        /\ GroundingPenalty(GroundingOverlap(answer, context)) = 0

\* C6 amended: an answer equal to its context that has at least one non-stop
\* token has 100% grounding and no grounding deduction.
C6_IdenticalWithWordsIsGrounded ==
    (critic_pc # "first" /\ answer = context
        /\ SplitSet(Lower(answer)) \ stop # {}) =>
        /\ ev_a.notes.grounding = "Good grounding (100%)"
        /\ GroundingPenalty(GroundingOverlap(answer, context)) = 0

\* C6's case: an answer with an upper-case word, evaluated against itself
C6_Witness ==
    /\ critic_pc # "first"
    /\ answer = context
    /\ answer = "The Model characterization"
    /\ ev_a.notes.grounding = "Good grounding (100%)"

(***************************************************************************)
(* revision_agent.py: run_revision_loop, one step per call it makes.       *)
(***************************************************************************)

MAX_ROUNDS == 2

\* the largest max_rounds a caller passes
MaxRoundsArg == 3

LoopAnswers ==
    {"It uses something.",
     "The methodology uses transformers with attention mechanisms."}
LoopContext == "The methodology uses transformers with attention mechanisms."
LoopQuestion == "What is the methodology?"
\* what the generation service may answer to revise's prompt
RevisedTexts ==
    {"It uses something else.",
     " The methodology uses transformers with attention mechanisms. "}
\* the scores an eval_fn other than the Critic's evaluate returns
StubScores == {3, 8}

\* revise: the generation service answers the prompt with the text gen
revise(original_ans, feedback, c, q, gen) ==
    [revised       |-> Strip(gen),
     original      |-> original_ans,
     feedback_used |-> feedback]

\* the results eval_fn(current, context, question, model_name) may return:
\* the Critic's evaluate, or any other function with a result of that shape
EvalResults(fn, a, c, q) ==
    IF fn = "evaluate"
    THEN {evaluate(a, c, q, gen) : gen \in LlmTexts}
    ELSE {[score |-> sc, feedback |-> "stub", needs_revision |-> nr] :
            sc \in StubScores, nr \in BOOLEAN}

\* the while condition, had it compared with <=
LoopGuard_off_by_one(e, rounds, cap) == e.needs_revision /\ rounds <= cap

\* the while condition: ev["needs_revision"] and rounds_done < max_rounds
LoopGuard(e, rounds, cap) == e.needs_revision /\ rounds < cap

\* the dict appended to history
RoundEntry(r, a, e) ==
    [round |-> r, answer |-> a, score |-> e.score, feedback |-> e.feedback]

InitLoop ==
    /\ answer \in LoopAnswers
    /\ context = LoopContext
    /\ question = LoopQuestion
    /\ eval_fn \in {"evaluate", "stub"}
    /\ max_rounds \in 0..MaxRoundsArg
    /\ pc = "first_eval"
    /\ history = <<>>
    /\ current = answer
    /\ ev = None
    /\ rounds_done = 0
    /\ result = None
    /\ eval_calls = 0
    /\ revise_calls = 0
    /\ CriticIdle /\ PlannerIdle /\ MemoryIdle /\ RestIdle

FirstEval ==
    /\ pc = "first_eval"
    /\ \E e \in EvalResults(eval_fn, current, context, question) :
        /\ ev' = e
        /\ history' = Append(history, RoundEntry(0, current, e))
    /\ eval_calls' = eval_calls + 1
    /\ rounds_done' = 0
    /\ pc' = "while"
    /\ UNCHANGED <<eval_fn, max_rounds, current, result, revise_calls,
                   argVars, criticVars, plannerVars, memoryVars, restVars>>

\* the while test and, when it passes, rounds_done += 1
While ==
    /\ pc = "while"
    /\ IF LoopGuard(ev, rounds_done, max_rounds)
       THEN rounds_done' = rounds_done + 1 /\ pc' = "revise"
       ELSE rounds_done' = rounds_done /\ pc' = "return"
    /\ UNCHANGED <<eval_fn, max_rounds, history, current, ev, result,
                   eval_calls, revise_calls,
                   argVars, criticVars, plannerVars, memoryVars, restVars>>

Revise ==
    /\ pc = "revise"
    /\ \E gen \in RevisedTexts :
        current' = revise(current, ev.feedback, context, question, gen).revised
    /\ revise_calls' = revise_calls + 1
    /\ pc' = "re_eval"
    /\ UNCHANGED <<eval_fn, max_rounds, history, ev, rounds_done, result,
                   eval_calls, argVars, criticVars, plannerVars, memoryVars, restVars>>

\* the re-evaluation, had it replaced the last history entry
ReEval_overwrite ==
    /\ pc = "re_eval"
    /\ \E e \in EvalResults(eval_fn, current, context, question) :
        /\ ev' = e
        /\ history' = [history EXCEPT ![Len(history)] =
                            RoundEntry(rounds_done, current, e)]
    /\ eval_calls' = eval_calls + 1
    /\ pc' = "while"
    /\ UNCHANGED <<eval_fn, max_rounds, current, rounds_done, result,
                   revise_calls, argVars, criticVars, plannerVars, memoryVars, restVars>>

ReEval ==
    /\ pc = "re_eval"
    /\ \E e \in EvalResults(eval_fn, current, context, question) :
        /\ ev' = e
        /\ history' = Append(history, RoundEntry(rounds_done, current, e))
    /\ eval_calls' = eval_calls + 1
    /\ pc' = "while"
    /\ UNCHANGED <<eval_fn, max_rounds, current, rounds_done, result,
                   revise_calls, argVars, criticVars, plannerVars, memoryVars, restVars>>

\* the return, had it given the answer of the best-scoring round
Return_best ==
    /\ pc = "return"
    /\ LET first_score == history[1].score
           last_score  == history[Len(history)].score
           \* the first round with the highest score
           best        == CHOOSE i \in 1..Len(history) :
                              /\ \A j \in 1..Len(history) :
                                     history[j].score <= history[i].score
                              /\ \A j \in 1..(i - 1) :
                                     history[j].score < history[i].score
       IN  result' = [final_answer |-> history[best].answer,
                      rounds       |-> rounds_done,
                      history      |-> history,
                      got_better   |-> last_score > first_score,
                      score_before |-> first_score,
                      score_after  |-> last_score]
    /\ pc' = "done"
    /\ UNCHANGED <<eval_fn, max_rounds, history, current, ev, rounds_done,
                   eval_calls, revise_calls,
                   argVars, criticVars, plannerVars, memoryVars, restVars>>

Return ==
    /\ pc = "return"
    /\ LET first_score == history[1].score
           last_score  == history[Len(history)].score
       IN  result' = [final_answer |-> current,
                      rounds       |-> rounds_done,
                      history      |-> history,
                      got_better   |-> last_score > first_score,
                      score_before |-> first_score,
                      score_after  |-> last_score]
    /\ pc' = "done"
    /\ UNCHANGED <<eval_fn, max_rounds, history, current, ev, rounds_done,
                   eval_calls, revise_calls,
                   argVars, criticVars, plannerVars, memoryVars, restVars>>

NextLoop == FirstEval \/ While \/ Revise \/ ReEval \/ Return

SpecLoop == InitLoop /\ [][NextLoop]_vars

\* C1: a call makes at most max_rounds + 1 evaluation calls and at most
\* max_rounds revise calls; with max_rounds = 2, at most 3 and at most 2.
C1_CallBounds ==
    /\ eval_calls <= max_rounds + 1
    /\ revise_calls <= max_rounds
    /\ (max_rounds = MAX_ROUNDS => eval_calls <= 3 /\ revise_calls <= 2)

\* C1's case: the default cap reached, 3 evaluations and 2 revisions made
C1_Witness ==
    /\ pc = "done"
    /\ max_rounds = MAX_ROUNDS
    /\ eval_calls = 3
    /\ revise_calls = 2

\* a revision is under way (rounds_done already counts it) only if the last
\* evaluation asked for one below the cap, and the loop has left the while
\* only if the last evaluation asked for none or the cap is reached
RevisionStartsOnGuard ==
    /\ (pc \in {"revise", "re_eval"} =>
            /\ rounds_done - 1 < max_rounds
            /\ (pc = "revise" => ev.needs_revision))
    /\ (pc \in {"return", "done"} =>
            ~(ev.needs_revision /\ rounds_done < max_rounds))

\* the loop returns: every position before the return has its step to take
\* (an evaluation has a result, the other steps are enabled), the rounds stay
\* within the cap, and the loop ends with a score of 7 or more (as the Critic
\* reports needs_revision) or at the cap
LoopReturns ==
    /\ pc \in {"first_eval", "while", "revise", "re_eval", "return", "done"}
    /\ (pc \in {"first_eval", "re_eval"} =>
            EvalResults(eval_fn, current, context, question) # {})
    /\ (pc = "while" => ENABLED While)
    /\ (pc = "revise" => ENABLED Revise)
    /\ (pc = "return" => ENABLED Return)
    /\ rounds_done <= max_rounds
    /\ (pc = "done" =>
            /\ (~ev.needs_revision \/ result.rounds = max_rounds)
            /\ (eval_fn = "evaluate" =>
                    (result.score_after >= 7 \/ result.rounds = max_rounds))
            /\ (eval_fn = "evaluate" =>
                    (ev.needs_revision <=> ev.score < 7)))

\* C2: a revision is started if and only if the last evaluation's
\* needs_revision is true and fewer than max_rounds rounds are done; the loop
\* always returns, with a last score >= 7 or with rounds = max_rounds.
C2_GuardAndReturn == RevisionStartsOnGuard /\ LoopReturns

\* C2's case: the cap hit with a low score, returned as a normal result
C2_Witness ==
    /\ pc = "done"
    /\ eval_fn = "evaluate"
    /\ max_rounds > 0
    /\ result.rounds = max_rounds
    /\ result.score_after < 7

\* the rounds of a history are 0, 1, 2, ...
Contiguous(h) == \A i \in 1..Len(h) : h[i].round = i - 1

HistoryShape ==
    /\ (pc # "first_eval" => Len(history) >= 1 /\ history[1].round = 0)
    /\ Contiguous(history)
    /\ (pc = "done" =>
            /\ Len(result.history) >= 1
            /\ Contiguous(result.history))

\* an entry, once appended, is never changed
HistoryKept ==
    /\ Len(history') >= Len(history)
    /\ SubSeq(history', 1, Len(history)) = history

\* C3: after the initial evaluation the history is non-empty, history[i].round
\* is i for every i, and no later round changes an entry already appended.
C3_HistoryContiguous == []HistoryShape /\ [][HistoryKept]_vars

\* C3's case: two revisions made, three entries with rounds 0, 1, 2
C3_Witness ==
    /\ pc = "done"
    /\ Len(result.history) = 3
    /\ result.history[3].round = 2
    /\ result.history[1].answer # result.history[3].answer

(***************************************************************************)
(* planner_agent.py.  The regular expressions are matched as Python's re   *)
(* matches them: leftmost match, alternatives in order, \b between a word  *)
(* character and a non-word character or an end of the string.             *)
(***************************************************************************)

\* \w, for the characters the model uses
WordChars ==
    {CharAt("abcdefghijklmnopqrstuvwxyz", i) : i \in 1..26}
    \cup {CharAt("ABCDEFGHIJKLMNOPQRSTUVWXYZ", i) : i \in 1..26}
    \cup {CharAt("0123456789_", i) : i \in 1..11}

IsWordAt(s, k) == k >= 1 /\ k <= Len(s) /\ CharAt(s, k) \in WordChars

\* \b just before the character at position p (p = Len(s) + 1: at the end)
Boundary(s, p) == IsWordAt(s, p - 1) # IsWordAt(s, p)

\* the position after the literal lit matched at position i, or 0
LitEnd(lit, s, i) ==
    IF i >= 1 /\ i + Len(lit) - 1 <= Len(s) /\ SubSeq(s, i, i + Len(lit) - 1) = lit
    THEN i + Len(lit)
    ELSE 0

\* the length of the whitespace run at position i
RECURSIVE WsRun(_, _)
WsRun(s, i) ==
    IF i <= Len(s) /\ CharAt(s, i) \in Whitespace THEN 1 + WsRun(s, i + 1) ELSE 0

\* the position after pre\s+post matched at position i, or 0
GapEnd(pre, post, s, i) ==
    LET e == LitEnd(pre, s, i)
        k == IF e = 0 THEN 0 ELSE WsRun(s, e)
    IN  IF e = 0 \/ k = 0 THEN 0 ELSE LitEnd(post, s, e + k)

\* the first of the candidate ends, in order, that is followed by \b, or 0
RECURSIVE FirstBounded(_, _)
FirstBounded(s, ends) ==
    IF ends = <<>> THEN 0
    ELSE IF Head(ends) > 0 /\ Boundary(s, Head(ends)) THEN Head(ends)
    ELSE FirstBounded(s, Tail(ends))

\* the position after a match at position i of
\*   "and":        \band\b
\*   "connector":  \b(?:and|vs\.?|versus|compared?\s+to|contrast\s+with)\b
\* or 0 when there is no match at i
MatchEnd(pat, s, i) ==
    IF ~Boundary(s, i) THEN 0
    ELSE IF pat = "and" THEN FirstBounded(s, <<LitEnd("and", s, i)>>)
    ELSE FirstBounded(s,
            <<LitEnd("and", s, i),
              LitEnd("vs.", s, i),
              LitEnd("vs", s, i),
              LitEnd("versus", s, i),
              GapEnd("compared", "to", s, i),
              GapEnd("compare", "to", s, i),
              GapEnd("contrast", "with", s, i)>>)

\* re.search(pat, s) finds a match
Search(pat, s) == \E i \in 1..Len(s) : MatchEnd(pat, s, i) > 0

\* re.search(r'\b' + re.escape(word) + r'\b', s) finds a match
WordSearch(word, s) ==
    \E i \in 1..Len(s) :
        /\ Boundary(s, i)
        /\ LitEnd(word, s, i) > 0
        /\ Boundary(s, LitEnd(word, s, i))

\* re.split(pat, s): the pieces of s between the matches, scanning from
\* position i with the current piece starting at st
RECURSIVE SplitFrom(_, _, _, _)
SplitFrom(pat, s, st, i) ==
    IF i > Len(s) THEN <<SubSeq(s, st, Len(s))>>
    ELSE IF MatchEnd(pat, s, i) > 0
    THEN <<SubSeq(s, st, i - 1)>>
         \o SplitFrom(pat, s, MatchEnd(pat, s, i), MatchEnd(pat, s, i))
    ELSE SplitFrom(pat, s, st, i + 1)

ReSplit(pat, s) == SplitFrom(pat, s, 1, 1)

\* [p.strip() for p in parts if p.strip()]
RECURSIVE StripNonEmpty(_)
StripNonEmpty(parts) ==
    IF parts = <<>> THEN <<>>
    ELSE IF Strip(Head(parts)) = "" THEN StripNonEmpty(Tail(parts))
    ELSE <<Strip(Head(parts))>> \o StripNonEmpty(Tail(parts))

COMPOUND_WORDS ==
    <<"and", "compare", "comparison", "difference", "differences",
      "versus", "vs", "contrast", "advantages and disadvantages">>

\* the keywords with their descriptions, in the dict's order
SECTION_MAP ==
    <<<<"methodology", "Find info about the methodology or methods used.">>,
      <<"method", "Find info about the methodology or methods used.">>,
      <<"approach", "Find info about the approach taken.">>,
      <<"limitation", "Find info about the limitations.">>,
      <<"limitations", "Find info about the limitations.">>,
      <<"result", "Find info about the results.">>,
      <<"results", "Find info about the results.">>,
      <<"finding", "Find the key findings.">>,
      <<"findings", "Find the key findings.">>,
      <<"contribution", "Find the contributions of this work.">>,
      <<"contributions", "Find the contributions of this work.">>,
      <<"conclusion", "Find the conclusions.">>,
      <<"abstract", "Find the abstract or summary.">>,
      <<"introduction", "Find information from the introduction.">>,
      <<"related work", "Find info about related work.">>,
      <<"future work", "Find info about future work suggestions.">>,
      <<"evaluation", "Find info about how they evaluated their work.">>,
      <<"experiment", "Find info about the experiments.">>,
      <<"dataset", "Find info about the dataset used.">>>>

complex_phrases ==
    <<"compare", "difference", "advantages and disadvantages",
      "limitations", "pros and cons", "contrast">>

\* the first phrase of phrases found in q, or None
RECURSIVE FirstPhraseIn(_, _)
FirstPhraseIn(phrases, q) ==
    IF phrases = <<>> THEN None
    ELSE IF Contains(Head(phrases), q) THEN Head(phrases)
    ELSE FirstPhraseIn(Tail(phrases), q)

\* all(len(p.strip()) > 5 for p in parts)
AllLong(parts) == \A k \in 1..Len(parts) : Len(Strip(parts[k])) > 5

check_complexity(qry) ==
    LET q      == Strip(Lower(qry))
        phrase == FirstPhraseIn(complex_phrases, q)
    IN  IF phrase # None
        THEN [is_complex |-> TRUE,
              reason |-> "Found '" \o phrase
                         \o "' - query likely needs multiple retrieval steps"]
        ELSE IF Search("and", q)
                /\ Len(ReSplit("and", q)) >= 2
                /\ AllLong(ReSplit("and", q))
        THEN [is_complex |-> TRUE,
              reason |-> "Query uses 'and' to connect multiple topics"]
        ELSE [is_complex |-> FALSE, reason |-> "Simple single-topic query"]

\* the descriptions of the keywords found in q_lower, each once, in the order
\* of the first keyword that gives it
RECURSIVE MatchSections(_, _, _)
MatchSections(entries, q_lower, matched) ==
    IF entries = <<>> THEN matched
    ELSE LET keyword == Head(entries)[1]
             desc    == Head(entries)[2]
         IN  IF Contains(keyword, q_lower)
                /\ ~(\E k \in 1..Len(matched) : matched[k] = desc)
             THEN MatchSections(Tail(entries), q_lower, Append(matched, desc))
             ELSE MatchSections(Tail(entries), q_lower, matched)

\* f"Subtask {i+1}: {item}" for every item
NumberSubtasks(items) ==
    [i \in 1..Len(items) |-> "Subtask " \o IntToStr(i) \o ": " \o items[i]]

\* [part.capitalize() for part in parts]
CapitalizeAll(parts) == [i \in 1..Len(parts) |-> Capitalize(parts[i])]

SynthesisStep == "Combine and summarize findings."

\* the simple branch, had it passed the normalised query through
simple_plan_normalised(qry, cx) ==
    LET q_lower  == Strip(Lower(qry))
        matched  == MatchSections(SECTION_MAP, q_lower, <<>>)
        subtasks == IF matched # <<>> THEN NumberSubtasks(matched)
                    ELSE <<"Subtask 1: " \o q_lower>>
    IN  [original_query |-> qry,
         complexity     |-> cx,
         is_compound    |-> Len(subtasks) > 1,
         subtasks       |-> subtasks,
         reasoning      |-> IF matched # <<>>
                            THEN "Simple query targeting "
                                 \o IntToStr(Len(matched)) \o " section(s)."
                            ELSE "Simple query, no decomposition needed."]

\* plan_query's branch for a query that is not complex
simple_plan(qry, cx) ==
    LET q_lower  == Strip(Lower(qry))
        matched  == MatchSections(SECTION_MAP, q_lower, <<>>)
        subtasks == IF matched # <<>> THEN NumberSubtasks(matched)
                    ELSE <<"Subtask 1: " \o qry>>
    IN  [original_query |-> qry,
         complexity     |-> cx,
         is_compound    |-> Len(subtasks) > 1,
         subtasks       |-> subtasks,
         reasoning      |-> IF matched # <<>>
                            THEN "Simple query targeting "
                                 \o IntToStr(Len(matched)) \o " section(s)."
                            ELSE "Simple query, no decomposition needed."]

\* plan_query's branch for a complex query
complex_plan(qry, cx) ==
    LET q_lower     == Strip(Lower(qry))
        is_compound == \E k \in 1..Len(COMPOUND_WORDS) :
                            WordSearch(COMPOUND_WORDS[k], q_lower)
        parts       == StripNonEmpty(ReSplit("connector", q_lower))
        subtasks    == IF is_compound /\ Len(parts) > 1
                       THEN Append(NumberSubtasks(CapitalizeAll(parts)),
                                   "Subtask " \o IntToStr(Len(parts) + 1)
                                   \o ": " \o SynthesisStep)
                       ELSE <<"Subtask 1: " \o qry>>
    IN  [original_query |-> qry,
         complexity     |-> cx,
         is_compound    |-> is_compound \/ Len(subtasks) > 1,
         subtasks       |-> subtasks,
         reasoning      |-> IF ~is_compound THEN "Marked complex but single-topic."
                            ELSE IF Len(parts) > 1
                            THEN "Split into " \o IntToStr(Len(parts))
                                 \o " parts + synthesis step."
                            ELSE "Detected compound keyword but couldn't split meaningfully."]

plan_query(qry) ==
    LET cx == check_complexity(qry)
    IN  IF ~cx.is_complex THEN simple_plan(qry, cx) ELSE complex_plan(qry, cx)

(***************************************************************************)
(* The Planner: check_complexity, then plan_query, on one query.           *)
(***************************************************************************)

MaxQueryItems == 3
QueryVocab ==
    {"compare", "difference", "versus", "advantages and disadvantages",
     "limitations", "pros and cons", "contrast",
     "and", "Cats", "dataset", ""}
\* the vocabulary items joined by single spaces; the empty item gives the
\* empty query, leading, trailing and doubled spaces
Queries == TextsOf(QueryVocab, MaxQueryItems)

InitPlanner ==
    /\ query \in Queries
    /\ plan_pc = "start" /\ complexity = None /\ plan = None
    /\ ArgsIdle /\ CriticIdle /\ LoopIdle /\ MemoryIdle /\ RestIdle

CheckComplexity ==
    /\ plan_pc = "start"
    /\ complexity' = check_complexity(query)
    /\ plan_pc' = "checked"
    /\ UNCHANGED <<query, plan, argVars, criticVars, loopVars, memoryVars, restVars>>

PlanQuery ==
    /\ plan_pc = "checked"
    /\ plan' = plan_query(query)
    /\ plan_pc' = "done"
    /\ UNCHANGED <<query, complexity, argVars, criticVars, loopVars, memoryVars, restVars>>

NextPlanner == CheckComplexity \/ PlanQuery

SpecPlanner == InitPlanner /\ [][NextPlanner]_vars

\* the last subtask of p is the synthesis step
EndsWithSynthesis(p) ==
    /\ Len(p.subtasks) >= 1
    /\ p.subtasks[Len(p.subtasks)] =
            "Subtask " \o IntToStr(Len(p.subtasks)) \o ": " \o SynthesisStep

\* qry has the form "X and Y": the standalone word "and" with text on both
\* of its sides
HasAndPhrase(qry) ==
    LET parts == ReSplit("and", Strip(Lower(qry)))
    IN  /\ Len(parts) >= 2
        /\ \A k \in 1..Len(parts) : Strip(parts[k]) # ""

\* C7 as stated: a query of the form "X and Y" (or "compare X and Y") gets
\* is_compound = TRUE, at least 2 subtasks and the synthesis step last; and
\* is_compound is TRUE only on a plan that ends with the synthesis step.
C7_CompoundHasSynthesis ==
    plan_pc = "done" =>
        /\ (HasAndPhrase(query) =>
                /\ plan.is_compound
                /\ Len(plan.subtasks) >= 2
                /\ EndsWithSynthesis(plan))
        /\ (plan.is_compound => EndsWithSynthesis(plan))

\* the seven phrases the complexity check is said to scan for
ClaimedPhrases ==
    {"compare", "difference", "versus", "advantages and disadvantages",
     "limitations", "pros and cons", "contrast"}

\* C8 as stated: a query whose lower-cased text contains any one of the seven
\* phrases is marked is_complex = TRUE, with a matched phrase as the reason.
C8_SevenPhrasesComplex ==
    (plan_pc # "start"
        /\ \E ph \in ClaimedPhrases : Contains(ph, Strip(Lower(query)))) =>
        /\ complexity.is_complex
        /\ \E ph \in ClaimedPhrases :
            /\ Contains(ph, Strip(Lower(query)))
            /\ complexity.reason = "Found '" \o ph
                    \o "' - query likely needs multiple retrieval steps"

\* no keyword of SECTION_MAP occurs in the normalised query
NoSectionKeyword(qry) ==
    \A k \in 1..Len(SECTION_MAP) :
        ~Contains(SECTION_MAP[k][1], Strip(Lower(qry)))

\* C9: a query that is not complex and has no section keyword (the empty and
\* the whitespace-only query included) gets exactly the one subtask
\* "Subtask 1: " + query, with is_compound = FALSE.
C9_SimplePassthrough ==
    (plan_pc = "done" /\ ~complexity.is_complex /\ NoSectionKeyword(query)) =>
        /\ plan.subtasks = <<"Subtask 1: " \o query>>
        /\ ~plan.is_compound
        /\ plan.original_query = query
        /\ plan.complexity = complexity

\* C9's case: the whitespace-only query, passed through as it is
C9_Witness ==
    /\ plan_pc = "done"
    /\ query = " "
    /\ ~complexity.is_complex
    /\ plan.subtasks = <<"Subtask 1:  ">>

(***************************************************************************)
(* memory.py: a Memory and the operations called on it, in any order.      *)
(***************************************************************************)

\* the saves of a session
MaxSaves == 3
\* the largest n passed to get_recent
MaxRecentArg == 3

MemQueries == {"q1", "q2"}
\* the (answer, final_answer) pairs passed to save
MemAnswers == {<<"a1", "">>, <<"a1", "f1">>, <<"", "">>}
\* the chunks_used passed to save (None: the default)
MemChunks == {None, <<"c1", "c2">>}

\* x or [] for an argument that defaults to None
OrEmpty(x) == IF x = None \/ x = <<>> THEN <<>> ELSE x

\* seq[start:] for an integer start, as Python slices
SliceFrom(seq, start) ==
    LET from == IF start < 0 THEN Max(start + Len(seq), 0)
                ELSE Min(start, Len(seq))
    IN  SubSeq(seq, from + 1, Len(seq))

\* the text get_recent builds from the entries it selected
RenderRecent(recent) ==
    IF recent = <<>> THEN "No previous queries."
    ELSE Join("\n\n",
              [i \in 1..Len(recent) |->
                  "Q: " \o recent[i].query \o "\nA: "
                  \o (IF recent[i].final_answer # ""
                      THEN recent[i].final_answer
                      ELSE recent[i].first_answer)])

get_recent(lg, n) ==
    RenderRecent(IF Len(lg) >= n THEN SliceFrom(lg, -n) ELSE lg)

InitMemory ==
    /\ MemoryIdle
    /\ ArgsIdle /\ CriticIdle /\ LoopIdle /\ PlannerIdle /\ RestIdle

\* save, had it put the new entry in front of the log
Save_prepend ==
    /\ clock < MaxSaves
    /\ \E q \in MemQueries, a \in MemAnswers, ch \in MemChunks :
        /\ log' = <<[time         |-> clock,
                     query        |-> q,
                     subtasks     |-> OrEmpty(None),
                     chunks_used  |-> OrEmpty(ch),
                     first_answer |-> a[1],
                     critic_score |-> 0,
                     feedback     |-> "",
                     final_answer |-> a[2],
                     revisions    |-> 0]>> \o log
        /\ mem_arg' = q
    /\ clock' = clock + 1
    /\ mem_op' = "save"
    /\ mem_ret' = None
    /\ UNCHANGED <<argVars, criticVars, loopVars, plannerVars, restVars>>

Save ==
    /\ clock < MaxSaves
    /\ \E q \in MemQueries, a \in MemAnswers, ch \in MemChunks :
        /\ log' = Append(log,
                [time         |-> clock,
                 query        |-> q,
                 subtasks     |-> OrEmpty(None),
                 chunks_used  |-> OrEmpty(ch),
                 first_answer |-> a[1],
                 critic_score |-> 0,
                 feedback     |-> "",
                 final_answer |-> a[2],
                 revisions    |-> 0])
        /\ mem_arg' = q
    /\ clock' = clock + 1
    /\ mem_op' = "save"
    /\ mem_ret' = None
    /\ UNCHANGED <<argVars, criticVars, loopVars, plannerVars, restVars>>

GetRecent ==
    /\ \E n \in 0..MaxRecentArg :
        /\ mem_arg' = n
        /\ mem_ret' = get_recent(log, n)
    /\ mem_op' = "get_recent"
    /\ UNCHANGED <<log, clock, argVars, criticVars, loopVars, plannerVars, restVars>>

Clear ==
    /\ log' = <<>>
    /\ mem_op' = "clear"
    /\ mem_arg' = None
    /\ mem_ret' = None
    /\ UNCHANGED <<clock, argVars, criticVars, loopVars, plannerVars, restVars>>

\* every chunk of every entry, in the log's order
RECURSIVE get_all_chunks(_)
get_all_chunks(lg) ==
    IF lg = <<>> THEN <<>>
    ELSE Head(lg).chunks_used \o get_all_chunks(Tail(lg))

\* len(self.log)
count(lg) == Len(lg)

\* self.log[-1] if self.log else None
last(lg) == IF lg # <<>> THEN lg[Len(lg)] ELSE None

GetAllChunks ==
    /\ mem_op' = "get_all_chunks"
    /\ mem_arg' = None
    /\ mem_ret' = get_all_chunks(log)
    /\ UNCHANGED <<log, clock, argVars, criticVars, loopVars, plannerVars, restVars>>

Count ==
    /\ mem_op' = "count"
    /\ mem_arg' = None
    /\ mem_ret' = count(log)
    /\ UNCHANGED <<log, clock, argVars, criticVars, loopVars, plannerVars, restVars>>

Last ==
    /\ mem_op' = "last"
    /\ mem_arg' = None
    /\ mem_ret' = last(log)
    /\ UNCHANGED <<log, clock, argVars, criticVars, loopVars, plannerVars, restVars>>

NextMemory == Save \/ GetRecent \/ Clear \/ GetAllChunks \/ Count \/ Last

SpecMemory == InitMemory /\ [][NextMemory]_vars

\* the last k entries of lg, oldest first
LastEntries(lg, k) == SubSeq(lg, Len(lg) - k + 1, Len(lg))

\* C10 as stated: get_recent(n), for every n >= 0, renders exactly the last
\* min(n, count()) entries of the log, oldest of the window first, each as its
\* query and its final answer (or, when that is empty, its first answer).
C10_RecentIsLastN ==
    mem_op = "get_recent" =>
        mem_ret = RenderRecent(LastEntries(log, Min(mem_arg, Len(log))))

\* what a step of the Memory may do to the log, by the operation called
MemoryFrame ==
    /\ (mem_op' = "save" =>
            /\ Len(log') = Len(log) + 1
            /\ SubSeq(log', 1, Len(log)) = log
            /\ log'[Len(log')].query = mem_arg'
            /\ count(log') = count(log) + 1)
    /\ (mem_op' \in {"get_recent", "get_all_chunks", "count", "last"} =>
            log' = log)
    /\ (mem_op' = "count" => mem_ret' = Len(log))
    /\ (mem_op' = "clear" => log' = <<>> /\ count(log') = 0)
    /\ (log' # log => mem_op' \in {"save", "clear"})
    /\ (Len(log') < Len(log) => mem_op' = "clear")

\* C11: save adds exactly one entry at the end and leaves the earlier entries
\* and their order unchanged; get_recent, get_all_chunks, count and last leave
\* the log unchanged; only clear removes entries, and it empties the log.
C11_AppendOnly == [][MemoryFrame]_vars

\* C11's case: three saves and a clear made, the last save on top of an
\* earlier entry that differs from it
C11_Witness ==
    /\ mem_op = "save"
    /\ clock = 3
    /\ Len(log) = 2
    /\ log[1].query # log[2].query

(***************************************************************************)
(* The Retriever (retrieval.py): find_top_chunks, one step for the search  *)
(* and one for each iteration of its for loop.  Distances are in tenths.   *)
(* The vector index is outside the repository: it holds one vector for     *)
(* each of the first Len(index) chunks, index[i + 1] is the distance of    *)
(* vector i from the query, and search(k) returns k slots, the nearest     *)
(* vectors first in ascending distance (ties in any order) and then, when  *)
(* the index holds fewer than k vectors, slots with the id -1.             *)
(***************************************************************************)

\* 1.5, in tenths
DISTANCE_THRESHOLD == 15

MaxChunks == 3
MaxTopK == 4
Distances == {0, DISTANCE_THRESHOLD, DISTANCE_THRESHOLD + 1}
ChunkLists == {[i \in 1..n |-> [chunk_id |-> i - 1]] : n \in 1..MaxChunks}
Indexes(n) == UNION {[1..m -> Distances] : m \in 0..n}

\* the distance the index reports in a slot that holds no candidate
NoCandidateDist == 100 * DISTANCE_THRESHOLD

\* the orders in which the index may list its vectors: ascending distance
Orderings(ix) ==
    {p \in [1..Len(ix) -> 0..(Len(ix) - 1)] :
        /\ \A a, b \in 1..Len(ix) : a # b => p[a] # p[b]
        /\ \A a, b \in 1..Len(ix) : a < b => ix[p[a] + 1] <= ix[p[b] + 1]}

\* index.search(q_vec, k): the rows dists[0] and idxs[0]
search(ix, k) ==
    {[dists |-> [s \in 1..k |-> IF s <= Len(ix) THEN ix[p[s] + 1]
                                               ELSE NoCandidateDist],
      idxs  |-> [s \in 1..k |-> IF s <= Len(ix) THEN p[s] ELSE -1]] :
        p \in Orderings(ix)}

WARNING == "Low similarity - might not be relevant"

\* the item built for the hit in the 0-based position rank; a warning of
\* None is an item without the key
Item(cl, dist, i, rank) ==
    [chunk   |-> cl[i + 1],
     score   |-> dist,
     rank    |-> rank + 1,
     warning |-> IF dist > DISTANCE_THRESHOLD THEN WARNING ELSE None]

InitRetrieval ==
    /\ ret_pc = "search"
    /\ top_k \in 1..MaxTopK
    /\ chunk_list \in ChunkLists
    /\ index \in Indexes(Len(chunk_list))
    /\ k_asked = None /\ dists = <<>> /\ idxs = <<>> /\ slot = 0
    /\ found = <<>>
    /\ ArgsIdle /\ CriticIdle /\ LoopIdle /\ PlannerIdle /\ MemoryIdle
    /\ AnswerIdle /\ ChunkIdle

\* line 28, and found = []
IndexSearch ==
    /\ ret_pc = "search"
    /\ k_asked' = Min(top_k, Len(chunk_list))
    /\ \E r \in search(index, k_asked') :
        /\ dists' = r.dists
        /\ idxs' = r.idxs
    /\ slot' = 0
    /\ found' = <<>>
    /\ ret_pc' = "for"
    /\ UNCHANGED <<top_k, chunk_list, index, argVars, criticVars, loopVars,
                   plannerVars, memoryVars, answerVars, chunkVars>>

\* one iteration of the for loop, had it left out the hits that get the
\* warning
ForHit_filtering ==
    /\ ret_pc = "for"
    /\ slot < Len(idxs)
    /\ found' = IF idxs[slot + 1] = -1 \/ dists[slot + 1] > DISTANCE_THRESHOLD
                THEN found
                ELSE Append(found, Item(chunk_list, dists[slot + 1],
                                        idxs[slot + 1], slot))
    /\ slot' = slot + 1
    /\ UNCHANGED <<ret_pc, top_k, chunk_list, index, k_asked, dists, idxs,
                   argVars, criticVars, loopVars, plannerVars, memoryVars, answerVars, chunkVars>>

\* one iteration of the for loop
ForHit ==
    /\ ret_pc = "for"
    /\ slot < Len(idxs)
    /\ found' = IF idxs[slot + 1] = -1
                THEN found
                ELSE Append(found, Item(chunk_list, dists[slot + 1],
                                        idxs[slot + 1], slot))
    /\ slot' = slot + 1
    /\ UNCHANGED <<ret_pc, top_k, chunk_list, index, k_asked, dists, idxs,
                   argVars, criticVars, loopVars, plannerVars, memoryVars, answerVars, chunkVars>>

\* the for loop is exhausted: return found
ReturnFound ==
    /\ ret_pc = "for"
    /\ slot = Len(idxs)
    /\ ret_pc' = "done"
    /\ UNCHANGED <<top_k, chunk_list, index, k_asked, dists, idxs, slot,
                   found, argVars, criticVars, loopVars, plannerVars,
                   memoryVars, answerVars, chunkVars>>

NextRetrieval == IndexSearch \/ ForHit \/ ReturnFound
SpecRetrieval == InitRetrieval /\ [][NextRetrieval]_vars

\* the slots of the search that hold a candidate, in the search's order
Hits ==
    SelectSeq([s \in 1..Len(idxs) |-> [dist |-> dists[s], id |-> idxs[s]]],
              LAMBDA h : h.id # -1)

FoundIsHits ==
    /\ Len(found) = Len(Hits)
    /\ \A j \in 1..Len(found) :
        /\ found[j].chunk = chunk_list[Hits[j].id + 1]
        /\ found[j].score = Hits[j].dist
        /\ found[j].rank = j
        /\ (found[j].warning = WARNING) <=> (found[j].score > DISTANCE_THRESHOLD)
        /\ found[j].warning \in {WARNING, None}
    /\ \A i, j \in 1..Len(found) : i < j => found[i].score <= found[j].score

\* C12: find_top_chunks asks the index for min(top_k, number of chunks)
\* neighbours and returns exactly the hits whose id is not -1, in the
\* search's ascending-distance order with ranks 1, 2, ...; no hit is left out
\* for its distance, a hit carries the warning iff its distance is above 1.5,
\* and fewer hits than top_k give a shorter list.
C12_FoundIsNonSentinelHits ==
    /\ ret_pc \in {"for", "done"} =>
        /\ k_asked = Min(top_k, Len(chunk_list))
        /\ Len(idxs) = k_asked /\ Len(dists) = k_asked
    /\ ret_pc = "done" =>
        /\ FoundIsHits
        /\ Len(found) = Min(k_asked, Len(index))
        /\ Len(found) <= top_k

\* a search with a slot holding no candidate, a hit with the warning and a
\* hit without it has returned
C12_Witness ==
    /\ ret_pc = "done"
    /\ \E s \in 1..Len(idxs) : idxs[s] = -1
    /\ 0 < Len(found) /\ Len(found) < top_k
    /\ \E j \in 1..Len(found) : found[j].warning = WARNING
    /\ \E j \in 1..Len(found) : found[j].warning = None

(***************************************************************************)
(* The Answer Generator (answer_agent.py): build_answer, one step for each *)
(* of make_prompt, the length guard, the call of llm and the return.       *)
(***************************************************************************)

LLM_NAME == "google/flan-t5-base"

\* the length above which build_answer rebuilds the prompt, and the number
\* of characters of the context it keeps
MaxPromptLen == 2000
ShortCtxLen == 1800

make_prompt(q, c) ==
    "Answer the following question based only on the provided context. "
    \o "If the answer is not in the context, say 'The context does not "
    \o "contain enough information to answer this.' Be specific.\n\n"
    \o "Context:\n" \o c \o "\n\n"
    \o "Question: " \o q \o "\n\n"
    \o "Answer:"

\* the length of the prompt of an empty question and an empty context
TemplateLen == Len(make_prompt("", ""))

\* s[:n] for n >= 0
Prefix(s, n) == SubSeq(s, 1, Min(n, Len(s)))

RECURSIVE Doubled(_, _)
Doubled(s, times) == IF times = 0 THEN s ELSE Doubled(s \o s, times - 1)

\* a long text in which a character tells its position modulo 10
LongText == Doubled("0123456789", 8)

MaxQuestionLen == 3
\* context lengths around the two limits
ContextLens ==
    {0, 1, MaxPromptLen - TemplateLen - 1, MaxPromptLen - TemplateLen,
     MaxPromptLen - TemplateLen + 1, ShortCtxLen - 1, ShortCtxLen,
     ShortCtxLen + 1, MaxPromptLen}
AnswerContexts == {Prefix(LongText, n) : n \in ContextLens}
AnswerQuestions == {Prefix("why?", n) : n \in 0..MaxQuestionLen}
\* out[0]["generated_text"]
Generated == {" It uses transformers. ", ""}

InitAnswer ==
    /\ question \in AnswerQuestions
    /\ context \in AnswerContexts
    /\ answer = ""
    /\ ans_pc = "make_prompt" /\ prompt = None /\ sent = <<>> /\ built = None
    /\ CriticIdle /\ LoopIdle /\ PlannerIdle /\ MemoryIdle
    /\ RetrievalIdle /\ ChunkIdle

\* line 66
MakePrompt ==
    /\ ans_pc = "make_prompt"
    /\ prompt' = make_prompt(question, context)
    /\ ans_pc' = "guard"
    /\ UNCHANGED <<sent, built, argVars, criticVars, loopVars, plannerVars,
                   memoryVars, retrievalVars, chunkVars>>

\* lines 69-71
LengthGuard ==
    /\ ans_pc = "guard"
    /\ prompt' = IF Len(prompt) > MaxPromptLen
                 THEN make_prompt(question, Prefix(context, ShortCtxLen))
                 ELSE prompt
    /\ ans_pc' = "llm"
    /\ UNCHANGED <<sent, built, argVars, criticVars, loopVars, plannerVars,
                   memoryVars, retrievalVars, chunkVars>>

\* lines 73-80
CallLlm ==
    /\ ans_pc = "llm"
    /\ sent' = Append(sent, prompt)
    /\ \E out \in Generated :
        built' = [answer      |-> Strip(out),
                  prompt_used |-> prompt,
                  model       |-> LLM_NAME]
    /\ ans_pc' = "done"
    /\ UNCHANGED <<prompt, argVars, criticVars, loopVars, plannerVars,
                   memoryVars, retrievalVars, chunkVars>>

NextAnswer == MakePrompt \/ LengthGuard \/ CallLlm
SpecAnswer == InitAnswer /\ [][NextAnswer]_vars

\* build_answer has returned: one prompt was sent, the full prompt when it
\* has at most 2000 characters and else the prompt of the same question and
\* the first 1800 characters of the context, and prompt_used is that prompt
OnePromptSent ==
    ans_pc = "done" =>
        /\ Len(sent) = 1
        /\ built.prompt_used = sent[1]
        /\ sent[1] = IF Len(make_prompt(question, context)) <= MaxPromptLen
                     THEN make_prompt(question, context)
                     ELSE make_prompt(question, Prefix(context, ShortCtxLen))

\* C13: build_answer sends exactly one prompt; a prompt of at most 2000
\* characters is sent unchanged, a longer one is rebuilt with the first 1800
\* characters of the context and the whole question and is the prompt_used,
\* and the prompt sent has at most 2000 characters.
C13_PromptWithinBudget ==
    /\ OnePromptSent
    /\ ans_pc = "done" => Len(sent[1]) <= MaxPromptLen

(***************************************************************************)
(* The Chunker (chunking.py): chunk_text, one step for the entry test and  *)
(* one for each iteration of the while loop.  Offsets are 0-based as in    *)
(* the code.                                                               *)
(***************************************************************************)

\* how Python reads the bound i of a slice of a sequence of length n
Adjust(i, n) == IF i < 0 THEN Max(i + n, 0) ELSE Min(i, n)

\* s[a:b]
Slice(s, a, b) == SubSeq(s, Adjust(a, Len(s)) + 1, Adjust(b, Len(s)))

\* s.rfind(sub, start, end): the highest offset in s[start:end] at which sub
\* lies wholly inside the slice, or -1
rfind(s, sub, start, end) ==
    LET at == {i \in Adjust(start, Len(s))..(Adjust(end, Len(s)) - Len(sub)) :
                   SubSeq(s, i + 1, i + Len(sub)) = sub}
    IN  IF at = {} THEN -1 ELSE CHOOSE i \in at : \A j \in at : j <= i

\* lines 34-38: the last sentence end, else newline, else space in the window
BreakPoint(t, p, e) ==
    IF rfind(t, ". ", p, e) # -1 THEN rfind(t, ". ", p, e)
    ELSE IF rfind(t, "\n", p, e) # -1 THEN rfind(t, "\n", p, e)
    ELSE rfind(t, " ", p, e)

\* lines 29-40: the end of the window that starts at p
WindowEnd(t, p, size) ==
    LET e  == p + size
        bp == BreakPoint(t, p, e)
    IN  IF e < Len(t) /\ bp # -1 /\ bp > p THEN bp + 1 ELSE e

MaxTextLen == 6
MaxChunkSize == 5
MaxOverlap == 2
\* the integer arguments, negative and zero included
ChunkSizes == -1..MaxChunkSize
Overlaps == -1..MaxOverlap
\* the iterations of the while loop the model follows
MaxIters == MaxTextLen + 2

RECURSIVE Strings(_, _)
Strings(alphabet, n) ==
    IF n = 0 THEN {""}
    ELSE Strings(alphabet, n - 1)
         \cup {t \o c : t \in Strings(alphabet, n - 1), c \in alphabet}

ChunkTexts == Strings({"a", ".", " ", "\n"}, MaxTextLen)

InitChunk ==
    /\ ck_pc = "entry"
    /\ text \in ChunkTexts
    /\ chunk_size \in ChunkSizes
    /\ overlap \in Overlaps
    /\ pos = 0 /\ idx = 0 /\ chunks = <<>> /\ iters = 0
    /\ ArgsIdle /\ CriticIdle /\ LoopIdle /\ PlannerIdle /\ MemoryIdle
    /\ RetrievalIdle /\ AnswerIdle

\* lines 21-26
Entry ==
    /\ ck_pc = "entry"
    /\ ck_pc' = IF text = "" \/ Strip(text) = "" THEN "done" ELSE "while"
    /\ UNCHANGED <<text, chunk_size, overlap, pos, idx, chunks, iters,
                   argVars, criticVars, loopVars, plannerVars, memoryVars,
                   retrievalVars, answerVars>>

\* lines 28-54: the loop test passes, one iteration
WhileBody ==
    /\ ck_pc = "while"
    /\ pos < Len(text)
    /\ iters < MaxIters
    /\ LET end   == WindowEnd(text, pos, chunk_size)
           piece == Strip(Slice(text, pos, end))
       IN  /\ chunks' = IF piece # ""
                        THEN Append(chunks, [text     |-> piece,
                                             chunk_id |-> idx,
                                             start    |-> pos,
                                             end      |-> end])
                        ELSE chunks
           /\ idx' = IF piece # "" THEN idx + 1 ELSE idx
    /\ pos' = pos + (chunk_size - overlap)
    /\ iters' = iters + 1
    /\ UNCHANGED <<ck_pc, text, chunk_size, overlap, argVars, criticVars,
                   loopVars, plannerVars, memoryVars, retrievalVars,
                   answerVars>>

\* lines 28, 56: the loop test fails, return result
WhileExit ==
    /\ ck_pc = "while"
    /\ ~(pos < Len(text))
    /\ ck_pc' = "done"
    /\ UNCHANGED <<text, chunk_size, overlap, pos, idx, chunks, iters,
                   argVars, criticVars, loopVars, plannerVars, memoryVars,
                   retrievalVars, answerVars>>

NextChunk == Entry \/ WhileBody \/ WhileExit
SpecChunk == InitChunk /\ [][NextChunk]_vars

\* C14: for a non-empty text and chunk_size > overlap >= 0, each chunk
\* returned after the first starts before the end offset of the chunk before
\* it, so that consecutive chunks overlap and no text lies between them.
C14_ConsecutiveOverlap ==
    (ck_pc = "done" /\ text # "" /\ chunk_size > overlap /\ overlap >= 0) =>
        \A i \in 2..Len(chunks) : chunks[i].start < chunks[i - 1].end

\* an iteration of the while loop moves the window forward
PositionAdvances == iters' # iters => pos' > pos

\* C16: chunk_text terminates for every text and every integer chunk_size
\* and overlap: each iteration of the while loop moves the window position
\* strictly forward, so the loop has run at most len(text) times when the
\* position passes the end of the text, and the chunk ids are 0, 1, 2, ...
C16_Terminates ==
    /\ [][PositionAdvances]_vars
    /\ [](iters <= Len(text))
    /\ [](\A i \in 1..Len(chunks) : chunks[i].chunk_id = i - 1)

(***************************************************************************)
(* run_revision_loop: the returned dict against the history.               *)
(***************************************************************************)

ResultConsistent ==
    pc = "done" =>
        LET h == result.history
        IN  /\ h = history
            /\ result.rounds = Len(h) - 1
            /\ result.final_answer = h[Len(h)].answer
            /\ result.score_before = h[1].score
            /\ result.score_after = h[Len(h)].score
            /\ result.got_better = (result.score_after > result.score_before)
            /\ result.rounds = 0 =>
                   revise_calls = 0 /\ result.final_answer = answer

\* the first evaluation does not ask for a revision: the loop is not entered
GoodFirstAnswerReturns ==
    (pc = "while" /\ rounds_done = 0 /\ ~ev.needs_revision) =>
        /\ pc' = "return"
        /\ rounds_done' = 0 /\ revise_calls' = 0
        /\ current' = answer
        /\ history' = history /\ Len(history) = 1

\* C15: the dict run_revision_loop returns agrees with its history: rounds
\* is len(history) - 1, final_answer is the last entry's answer,
\* score_before and score_after are the first and the last entry's score and
\* got_better says whether score_after > score_before; when the first
\* evaluation does not need a revision, revise is not called and
\* final_answer is the answer passed in; the final answer is the last
\* revision even if an earlier round scored higher.
C15_ResultMatchesHistory ==
    /\ []ResultConsistent
    /\ [][GoodFirstAnswerReturns]_vars

\* a call has returned after two revisions of which the first scored higher
\* than the second, with the second as its final answer
C15_Witness ==
    /\ pc = "done"
    /\ result.rounds = 2
    /\ history[2].score > history[3].score
    /\ history[2].answer # history[3].answer
    /\ result.final_answer = history[3].answer
    /\ ~result.got_better

====
